---- MODULE Spec2Model ----
(***************************************************************************)
(* Italy ArcGIS dashboard: the route optimizer of the Shortest Path page   *)
(* (pages/02_shortest_path.py) and the density / coverage analyses of the  *)
(* H3 page (modules/h3_map.py, pages/04_h3_index_demo.py).                 *)
(*                                                                         *)
(* Numbers.  Python floats are modelled in fixed point: angles and the     *)
(* values of sin/cos in units of 1/Scale, route distances in units of      *)
(* 100 m.  The density thresholds keep the rounding of the float product   *)
(* they are computed with.                                                 *)
(* Indices of points are 0-based as in the source; TLA+ sequences are      *)
(* 1-based, so element i of a Python list l is l[i + 1].                   *)
(***************************************************************************)
EXTENDS Integers, Sequences, FiniteSets, TLC

VARIABLES
    selected_places,        \* the list of places given to _calculate_shortest_path
    shortest_path_result,   \* st.session_state[SHORTEST_PATH_KEY]
    distances,              \* the matrix built by the last route calculation
    provider_outcomes,      \* whether the k-th ST_DISTANCE query of a request succeeds or raises
    route_message,          \* what the last route request showed to the user
    density_low,            \* st.session_state[DENSITY_LOW_THRESHOLD_KEY]
    density_high,           \* st.session_state[DENSITY_HIGH_THRESHOLD_KEY]
    city_counts,            \* CITY_COUNT column of the density table, by cell
    density_view,           \* the density deck last built: thresholds used, colour and category per cell
    coverage_radius,        \* st.session_state[COVERAGE_RADIUS_KEY], in units of 0.0001 km
    h3_resolution,          \* st.session_state[RESOLUTION_KEY]
    station_table,          \* the rows (type, geography) of the points table
    coverage_view,          \* the coverage table last loaded: radius, resolution, rows, statistics
    last_selection,         \* st.session_state[LAST_SELECTION_KEY]
    evaluated,              \* the number of orderings the last route calculation summed
    fn_call,                \* a direct call of one function: its name and arguments
    fn_return,              \* what that call returned, None before it returns
    fn_frame,               \* the local variables of a route calculation in progress
    stop_requested          \* the script runner has been asked to stop the run

route_vars == <<selected_places, shortest_path_result, distances, provider_outcomes, route_message,
               last_selection, evaluated>>
density_vars == <<density_low, density_high, city_counts, density_view>>
coverage_vars == <<coverage_radius, h3_resolution, station_table, coverage_view>>
fn_vars == <<fn_call, fn_return, fn_frame, stop_requested>>
vars == <<route_vars, density_vars, coverage_vars, fn_vars>>

\* None; a value that may be None is <<>> or <<v>>
None == <<>>
Some(v) == <<v>>

(***************************************************************************)
(* Bounds of the model.                                                    *)
(***************************************************************************)
\* longest point list whose provider outcomes are explored exhaustively
MaxN == 4

(***************************************************************************)
(* Program constants.                                                      *)
(***************************************************************************)
MAX_SELECTABLE_PLACES == 8
\* EARTH_RADIUS_KM = 6371.0, in units of 100 m
EARTH_RADIUS_KM == 63710
\* fixed-point scale of angles (radians) and of sin / cos values
Scale == 10000
\* float("inf"): above every finite number
inf == 2000000000

(***************************************************************************)
(* Fixed-point arithmetic standing for the float operations of math.       *)
(***************************************************************************)
\* division rounding toward zero, so that TDiv(-a, b) = -TDiv(a, b)
TDiv(a, b) == IF a >= 0 THEN a \div b ELSE -((-a) \div b)

Mul(a, b) == TDiv(a * b, Scale)

\* math.radians of an angle given in tenths of a degree
radians(deg10) == TDiv(deg10 * 31416, 1800)

\* math.sin, |x| <= pi/2: x (1 - x^2/6 (1 - x^2/20 (1 - x^2/42)))
sin(x) ==
    LET x2 == Mul(x, x)
        t1 == Scale - TDiv(x2, 42)
        t2 == Scale - TDiv(Mul(x2, t1), 20)
        t3 == Scale - TDiv(Mul(x2, t2), 6)
    IN  Mul(x, t3)

\* math.cos, |x| <= pi/2: 1 - x^2/2 (1 - x^2/12 (1 - x^2/30))
cos(x) ==
    LET x2 == Mul(x, x)
        t1 == Scale - TDiv(x2, 30)
        t2 == Scale - TDiv(Mul(x2, t1), 12)
    IN  Scale - TDiv(Mul(x2, t2), 2)

\* integer square root by bisection: the largest r in lo..hi with r * r <= v
RECURSIVE ISqrt(_, _, _)
ISqrt(v, lo, hi) ==
    IF lo >= hi THEN lo
    ELSE LET mid == (lo + hi + 1) \div 2
         IN  IF mid * mid <= v THEN ISqrt(v, mid, hi) ELSE ISqrt(v, lo, mid - 1)

\* math.sqrt of a value a / Scale^2, result in units of 1 / Scale
sqrt(a) == ISqrt(a, 0, 2 * Scale)

\* math.asin, 0 <= y <= 1/2: y (1 + y^2 (1/6 + y^2 (3/40 + y^2 15/336)))
asin(y) ==
    LET y2 == Mul(y, y)
        t1 == TDiv(3 * Scale, 40) + TDiv(Mul(y2, 15 * Scale), 336)
        t2 == TDiv(Scale, 6) + Mul(y2, t1)
    IN  y + Mul(y, Mul(y2, t2))

\* variant: cos(lat1_rad) is used twice, in place of cos(lat1_rad) * cos(lat2_rad)
CentralAngle_Lat1Twice(lat1, lon1, lat2, lon2) ==
    LET lat1_rad == radians(lat1)
        dlat == radians(lat2) - lat1_rad
        dlon == radians(lon2) - radians(lon1)
        slat == sin(TDiv(dlat, 2))
        slon == sin(TDiv(dlon, 2))
        a == slat * slat + Mul(Mul(cos(lat1_rad), cos(lat1_rad)), slon) * slon
    IN  2 * asin(sqrt(a))

\* great-circle central angle (2 * asin(sqrt(a))) of two points, coordinates in
\* tenths of a degree
CentralAngle(lat1, lon1, lat2, lon2) ==
    LET lat1_rad == radians(lat1)
        lon1_rad == radians(lon1)
        lat2_rad == radians(lat2)
        lon2_rad == radians(lon2)
        dlat == lat2_rad - lat1_rad
        dlon == lon2_rad - lon1_rad
        slat == sin(TDiv(dlat, 2))
        slon == sin(TDiv(dlon, 2))
        \* a = sin(dlat/2)^2 + cos(lat1) cos(lat2) sin(dlon/2)^2, in units of 1/Scale^2
        a == slat * slat + Mul(Mul(cos(lat1_rad), cos(lat2_rad)), slon) * slon
    IN  2 * asin(sqrt(a))

_haversine_distance(lat1, lon1, lat2, lon2) ==
    TDiv(EARTH_RADIUS_KM * CentralAngle(lat1, lon1, lat2, lon2), Scale)

\* math.isinf
isinf(x) == x = inf \/ x = -inf

\* _haversine_distance raises ValueError("math domain error"): sin and cos
\* raise it for an infinite argument.  dlat is infinite when exactly one
\* latitude is (inf - inf is nan, which sin lets through), cos is applied to
\* both latitudes, and dlon is infinite when exactly one longitude is
MathDomainError(lat1, lon1, lat2, lon2) ==
    \/ isinf(lat1)
    \/ isinf(lat2)
    \/ isinf(lon1) /= isinf(lon2)

\* what a call that raises ValueError leaves in place of its return value
ValueError == <<>>

\* the copy of the nearest-stations page
_haversine_distance_km(lat1, lon1, lat2, lon2) ==
    TDiv(EARTH_RADIUS_KM * CentralAngle(lat1, lon1, lat2, lon2), Scale)

(***************************************************************************)
(* Places.  A selected place is the dictionary normalize_feature builds:   *)
(* every field is a string.  A coordinate string is modelled by <<v>>, v   *)
(* the number it spells in tenths of a degree, and by <<>> when it spells  *)
(* no number ("" is what to_string gives for a missing field).             *)
(***************************************************************************)
Place(id, nm, lat, lon) ==
    [osm_id |-> id, name |-> nm, type |-> "city", latitude |-> lat, longitude |-> lon]

PLACES ==
    << Place("1", "Roma",    <<419>>, <<125>>),
       Place("2", "Milano",  <<455>>, <<92>>),
       Place("3", "Napoli",  <<409>>, <<143>>),
       Place("4", "Torino",  <<451>>, <<77>>),
       Place("5", "Firenze", <<438>>, <<113>>),
       Place("6", "Venezia", <<454>>, <<123>>),
       Place("7", "Bologna", <<445>>, <<113>>),
       Place("8", "Palermo", <<381>>, <<134>>),
       Place("9", "Bari",    <<411>>, <<169>>),
       Place("10", "Senza",  <<>>,    <<101>>) >>

\* the point lists of length at most maxlen handed to a route request: the
\* runs of consecutive rows of PLACES
RequestLists(maxlen) ==
    UNION { { SubSeq(PLACES, s, s + l - 1) : s \in 1..(Len(PLACES) - l + 1) } : l \in 0..maxlen }

\* float(text): the number a coordinate string spells; raises ValueError otherwise
IsFloat(text) == Len(text) = 1
float(text) == text[1]

(***************************************************************************)
(* Distance matrix (_calculate_distance_matrix).                           *)
(***************************************************************************)
\* ST_DISTANCE(ST_POINT(lon1, lat1), ST_POINT(lon2, lat2)) / 1000 as the
\* database computes it: a geodesic distance of its own sphere, close to the
\* haversine value without being equal to it
ST_DISTANCE(lat1, lon1, lat2, lon2) ==
    TDiv(63781 * CentralAngle(lat1, lon1, lat2, lon2), Scale)

\* the pairs (i, j), i < j, in the order of the nested loop over range(n)
RECURSIVE PairsFrom(_, _, _)
PairsFrom(n, i, j) ==
    IF i >= n - 1 THEN <<>>
    ELSE IF j >= n THEN PairsFrom(n, i + 1, i + 2)
    ELSE << <<i, j>> >> \o PairsFrom(n, i, j + 1)

LoopPairs(n) == PairsFrom(n, 0, 1)

\* distances = [[0.0] * n for _ in range(n)]
ZeroMatrix(n) == [i \in 1..n |-> [j \in 1..n |-> 0]]

\* variant: only distances[i][j] = dist
SetUpperOnly(dm, i, j, dist) ==
    [dm EXCEPT ![i + 1][j + 1] = dist]

\* distances[i][j] = dist; distances[j][i] = dist
SetBoth(dm, i, j, dist) ==
    [dm EXCEPT ![i + 1][j + 1] = dist, ![j + 1][i + 1] = dist]

\* variant: a failed query starts the matrix over with the fallback
PairStep_StartOver(dm, coords, i, j, outcome) ==
    LET lat1 == coords[i + 1][1]
        lon1 == coords[i + 1][2]
        lat2 == coords[j + 1][1]
        lon2 == coords[j + 1][2]
    IN  IF outcome = "ok"
        THEN SetBoth(dm, i, j, ST_DISTANCE(lat1, lon1, lat2, lon2))
        ELSE IF MathDomainError(lat1, lon1, lat2, lon2)
        THEN ValueError
        ELSE SetBoth(ZeroMatrix(Len(dm)), i, j, _haversine_distance(lat1, lon1, lat2, lon2))

\* variant: a fallback that raises is passed over, and the entry of the pair
\* keeps the 0.0 the matrix was created with
PairStep_DefaultEntry(dm, coords, i, j, outcome) ==
    LET lat1 == coords[i + 1][1]
        lon1 == coords[i + 1][2]
        lat2 == coords[j + 1][1]
        lon2 == coords[j + 1][2]
    IN  IF outcome = "ok"
        THEN SetBoth(dm, i, j, ST_DISTANCE(lat1, lon1, lat2, lon2))
        ELSE IF MathDomainError(lat1, lon1, lat2, lon2)
        THEN dm
        ELSE SetBoth(dm, i, j, _haversine_distance(lat1, lon1, lat2, lon2))

\* the body of the nested loop for the pair (i, j): the provider's value when
\* the query succeeds, the haversine value when it raises; an exception of
\* the fallback is raised inside the except block and leaves the function
PairStep(dm, coords, i, j, outcome) ==
    LET lat1 == coords[i + 1][1]
        lon1 == coords[i + 1][2]
        lat2 == coords[j + 1][1]
        lon2 == coords[j + 1][2]
    IN  IF outcome = "ok"
        THEN SetBoth(dm, i, j, ST_DISTANCE(lat1, lon1, lat2, lon2))
        ELSE IF MathDomainError(lat1, lon1, lat2, lon2)
        THEN ValueError
        ELSE SetBoth(dm, i, j, _haversine_distance(lat1, lon1, lat2, lon2))

RECURSIVE MatrixLoop(_, _, _, _, _)
MatrixLoop(dm, coords, pairs, k, outcomes) ==
    IF k > Len(pairs) \/ dm = ValueError THEN dm
    ELSE LET next == PairStep(dm, coords, pairs[k][1], pairs[k][2], outcomes[k])
         IN  MatrixLoop(next, coords, pairs, k + 1, outcomes)

\* outcomes[k]: whether the k-th query of the loop succeeds ("ok") or raises
\* ("fail"); the value is ValueError when the fallback of a pair raises
_calculate_distance_matrix(coords, outcomes) ==
    LET n == Len(coords)
    IN  MatrixLoop(ZeroMatrix(n), coords, LoopPairs(n), 1, outcomes)

(***************************************************************************)
(* Brute-force search (_solve_tsp_brute_force).                            *)
(***************************************************************************)
\* variant: the closed tour, with the leg from the last point back to the first
RECURSIVE PathDistance_Closed(_, _, _)
PathDistance_Closed(dm, path, i) ==
    IF i >= Len(path) THEN dm[path[i] + 1][path[1] + 1]
    ELSE dm[path[i] + 1][path[i + 1] + 1] + PathDistance_Closed(dm, path, i + 1)

\* sum(distances[path[i]][path[i + 1]] for i in range(len(path) - 1)), from position i
RECURSIVE PathDistance(_, _, _)
PathDistance(dm, path, i) ==
    IF i >= Len(path) THEN 0
    ELSE dm[path[i] + 1][path[i + 1] + 1] + PathDistance(dm, path, i + 1)

\* variant: a later permutation of equal total replaces the best one
TryPath_LastWins(dm, best, path) ==
    LET dist == PathDistance(dm, path, 1)
    IN  IF dist <= best.distance
        THEN [path |-> path, distance |-> dist, tried |-> best.tried + 1]
        ELSE [best EXCEPT !.tried = @ + 1]

\* variant: the total is improved but the path of the first permutation is kept
TryPath_StalePath(dm, best, path) ==
    LET dist == PathDistance(dm, path, 1)
    IN  IF dist < best.distance
        THEN [path |-> IF best.path = None THEN path ELSE best.path, distance |-> dist,
              tried |-> best.tried + 1]
        ELSE [best EXCEPT !.tried = @ + 1]

\* variant: the comparison is inverted, so that only a longer path replaces the best
TryPath_KeepsLonger(dm, best, path) ==
    LET dist == PathDistance(dm, path, 1)
    IN  IF dist > best.distance
        THEN [path |-> path, distance |-> dist, tried |-> best.tried + 1]
        ELSE [best EXCEPT !.tried = @ + 1]

\* the body of the loop over the permutations; tried counts the permutations
\* the body has been run for
TryPath(dm, best, path) ==
    LET dist == PathDistance(dm, path, 1)
    IN  IF dist < best.distance
        THEN [path |-> path, distance |-> dist, tried |-> best.tried + 1]
        ELSE [best EXCEPT !.tried = @ + 1]

\* pool without its k-th element
Without(pool, k) ==
    [j \in 1..(Len(pool) - 1) |-> IF j < k THEN pool[j] ELSE pool[j + 1]]

\* variant: the first point is kept as the start, only the others are permuted
RECURSIVE ForPermutations_FixedStart(_, _, _, _, _)
ForPermutations_FixedStart(dm, prefix, pool, k, best) ==
    IF pool = <<>> THEN TryPath(dm, best, prefix)
    ELSE IF k > Len(pool) \/ (prefix = <<>> /\ k > 1) THEN best
    ELSE LET after == ForPermutations_FixedStart(dm, Append(prefix, pool[k]),
                                                 Without(pool, k), 1, best)
         IN  IF after.distance <= inf
             THEN ForPermutations_FixedStart(dm, prefix, pool, k + 1, after)
             ELSE after

\* for perm in permutations(pool): the permutations that extend prefix, in the
\* order itertools yields them (lexicographic in the positions of pool), each
\* handed to the loop body; best is the pair (best_path, best_distance) so far,
\* k the position in pool of the next element tried after prefix
RECURSIVE ForPermutations(_, _, _, _, _)
ForPermutations(dm, prefix, pool, k, best) ==
    IF pool = <<>> THEN TryPath(dm, best, prefix)
    ELSE IF k > Len(pool) THEN best
    ELSE LET after == ForPermutations(dm, Append(prefix, pool[k]), Without(pool, k), 1, best)
         \* no total is above inf: the test only orders the evaluation, the
         \* permutations after prefix + pool[k] first, then those after it
         IN  IF after.distance <= inf
             THEN ForPermutations(dm, prefix, pool, k + 1, after)
             ELSE after

_solve_tsp_brute_force(dm) ==
    LET n == Len(dm)
    IN  IF n <= 1 THEN [path |-> <<0>>, distance |-> 0, tried |-> 0]
        ELSE IF n = 2 THEN [path |-> <<0, 1>>, distance |-> dm[1][2], tried |-> 0]
        ELSE ForPermutations(dm, <<>>, [i \in 1..n |-> i - 1], 1,
                             [path |-> None, distance |-> inf, tried |-> 0])

(***************************************************************************)
(* Route request (_calculate_shortest_path).                               *)
(***************************************************************************)
\* whether float() accepts both coordinates of every place
ValidCoords(places) ==
    \A k \in 1..Len(places) : IsFloat(places[k].latitude) /\ IsFloat(places[k].longitude)

\* coords: the triples (latitude, longitude, name) of the places
Coords(places) ==
    [k \in 1..Len(places) |->
        <<float(places[k].latitude), float(places[k].longitude), places[k].name>>]

NumPairs(n) == (n * (n - 1)) \div 2

\* every way the queries of a request for n points can succeed or raise
AllOutcomes(n) == [1..NumPairs(n) -> {"ok", "fail"}]

\* st.session_state["shortest_path_result"] = {...}
StoredResult(best, places) ==
    [path |-> best.path, total_distance |-> best.distance, places |-> places]

\* variant: only the empty selection is refused
TooFew_EmptyOnly(places) == Len(places) < 1

\* len(selected_places) < 2
TooFew(places) == Len(places) < 2

_calculate_shortest_path(outcomes) ==
    LET n == Len(selected_places)
    IN  IF TooFew(selected_places)
        THEN /\ route_message' = "warning: select at least 2 places"
             /\ UNCHANGED <<selected_places, shortest_path_result, distances, provider_outcomes,
                             last_selection, evaluated>>
        ELSE IF ~ValidCoords(selected_places)
        THEN /\ route_message' = "error: invalid place data"
             /\ UNCHANGED <<selected_places, shortest_path_result, distances, provider_outcomes,
                             last_selection, evaluated>>
        \* dm and best each take the one value computed for them
        ELSE \E dm \in {_calculate_distance_matrix(Coords(selected_places), outcomes)} :
             \* the exception passes through _calculate_shortest_path uncaught
             IF dm = ValueError
             THEN /\ route_message' = "exception: math domain error"
                  /\ UNCHANGED <<selected_places, shortest_path_result, distances,
                                  provider_outcomes, last_selection, evaluated>>
             ELSE
             \E best \in {_solve_tsp_brute_force(dm)} :
                 /\ distances' = dm
                 /\ shortest_path_result' = Some(StoredResult(best, selected_places))
                 /\ route_message' = "rerun"
                 /\ evaluated' = best.tried
                 /\ UNCHANGED <<selected_places, provider_outcomes, last_selection>>

\* the "Calculate Shortest Path" button
Calculate ==
    /\ _calculate_shortest_path(provider_outcomes)
    /\ UNCHANGED <<density_vars, coverage_vars, fn_vars>>

\* no function is called directly
\* no calculation is in progress
RunIdle == fn_frame = None /\ stop_requested = FALSE

FnIdle == fn_call = None /\ fn_return = None /\ RunIdle

\* the H3 page has not been opened
H3Idle ==
    /\ FnIdle
    /\ density_low = 0 /\ density_high = 0 /\ city_counts = <<>> /\ density_view = None
    /\ coverage_radius = 0 /\ h3_resolution = 0 /\ station_table = <<>> /\ coverage_view = None

\* the Shortest Path page has not been opened
RouteIdle ==
    /\ selected_places = <<>> /\ shortest_path_result = None /\ distances = <<>>
    /\ provider_outcomes = <<>> /\ route_message = "none"
    /\ last_selection = None /\ evaluated = 0

InitRoute ==
    /\ selected_places \in RequestLists(MaxN)
    /\ shortest_path_result = None
    /\ distances = <<>>
    /\ provider_outcomes \in AllOutcomes(Len(selected_places))
    /\ route_message = "none"
    /\ last_selection = None
    /\ evaluated = 0
    /\ H3Idle

NextRoute == Calculate

SpecRoute == InitRoute /\ [][NextRoute]_vars

(***************************************************************************)
(* Density classification (build_h3_density_deck) and its two sliders.     *)
(*                                                                         *)
(* The thresholds are the floats max_count * (pct / 100.0).  A count is an *)
(* integer, so count >= threshold differs from count >= max_count*pct/100  *)
(* only when max_count*pct/100 is an integer T and the float product lies  *)
(* above T.  pct/100 is rounded to 53 bits: with k the least exponent such *)
(* that pct * 2^k >= 100 and r = (pct * 2^(52+k)) mod 100, the quotient is *)
(* rounded up by (100 - r)/100 units of 2^-(52+k) when r > 50 (r = 50      *)
(* cannot occur).  The product max_count * fl(pct/100) is exact before its *)
(* own rounding and exceeds T by max_count (100 - r)/100 of those units;   *)
(* it is rounded to a float above T when that excess is more than half the *)
(* spacing 2^(j-52) of the floats at T, 2^j <= T < 2^(j+1).                *)
(***************************************************************************)
DEFAULT_DENSITY_LOW_THRESHOLD == 20
DEFAULT_DENSITY_HIGH_THRESHOLD == 50
MIN_DENSITY_THRESHOLD == 0
MAX_DENSITY_THRESHOLD == 100
\* step=5 of both threshold sliders
DENSITY_SLIDER_STEP == 5

\* 2^m mod 100
RECURSIVE Pow2Mod100(_)
Pow2Mod100(m) == IF m = 0 THEN 1 ELSE (2 * Pow2Mod100(m - 1)) % 100

\* the least k >= from with pct * 2^k >= 100, pct >= 1
RECURSIVE BinaryExponent(_, _)
BinaryExponent(pct, from) ==
    IF pct * 2^from >= 100 THEN from ELSE BinaryExponent(pct, from + 1)

\* the j with 2^j <= t < 2^(j+1), t >= 1
RECURSIVE Log2Floor(_, _)
Log2Floor(t, from) == IF 2^(from + 1) > t THEN from ELSE Log2Floor(t, from + 1)

\* whether the float max_count * (pct / 100.0) is greater than max_count*pct/100
ProductRoundsAbove(max_count, pct) ==
    IF (max_count * pct) % 100 /= 0 \/ pct = 0 \/ max_count = 0 THEN FALSE
    ELSE LET t == (max_count * pct) \div 100
             k == BinaryExponent(pct, 0)
             r == (pct * Pow2Mod100(52 + k)) % 100
             j == Log2Floor(t, 0)
         IN  r > 50 /\ max_count * (100 - r) > 100 * 2^(j + k - 1)

\* the float max_count * (pct / 100.0): the value hundredths / 100, or the next
\* float above it
FloatThreshold(max_count, pct) ==
    [hundredths |-> max_count * pct, above |-> ProductRoundsAbove(max_count, pct)]

\* variant: count > threshold
AtLeast_Strict(count, threshold) == 100 * count > threshold.hundredths

\* count >= threshold
AtLeast(count, threshold) ==
    \/ 100 * count > threshold.hundredths
    \/ 100 * count = threshold.hundredths /\ ~threshold.above

get_density_category(count, low_threshold, high_threshold) ==
    IF AtLeast(count, high_threshold) THEN "High"
    ELSE IF AtLeast(count, low_threshold) THEN "Medium"
    ELSE "Low"

\* the key of H3_DENSITY_COLORS get_density_color returns
get_density_color(count, low_threshold, high_threshold) ==
    IF AtLeast(count, high_threshold) THEN "high"
    ELSE IF AtLeast(count, low_threshold) THEN "medium"
    ELSE "low"

\* a float quotient num / den, kept as the fraction
Ratio(num, den) == [num |-> num, den |-> den]

\* variant: the percentage is computed without the test on max_count
get_density_percentage_Unguarded(count, max_count) == Ratio(count * 100, max_count)

\* count / max_count * 100.0, or 0.0
get_density_percentage(count, max_count) ==
    IF max_count > 0 THEN Ratio(count * 100, max_count) ELSE Ratio(0, 1)

\* df_density["CITY_COUNT"].max()
MaxOf(counts) == CHOOSE m \in { counts[k] : k \in 1..Len(counts) } :
                    \A k \in 1..Len(counts) : counts[k] <= m

\* the columns the deck is built from, or None for the empty deck of an empty table
build_h3_density_deck(counts, low_threshold_pct, high_threshold_pct) ==
    IF counts = <<>> THEN None
    ELSE LET max_count == MaxOf(counts)
             low_threshold == FloatThreshold(max_count, low_threshold_pct)
             high_threshold == FloatThreshold(max_count, high_threshold_pct)
         IN  Some([low_threshold_pct |-> low_threshold_pct,
                   high_threshold_pct |-> high_threshold_pct,
                   max_count |-> max_count,
                   CITY_COUNT |-> counts,
                   COLOR |-> [k \in 1..Len(counts) |->
                       get_density_color(counts[k], low_threshold, high_threshold)],
                   DENSITY_CATEGORY |-> [k \in 1..Len(counts) |->
                       get_density_category(counts[k], low_threshold, high_threshold)],
                   DENSITY_PCT |-> [k \in 1..Len(counts) |->
                       get_density_percentage(counts[k], max_count)]])

\* CITY_COUNT columns load_h3_density_data can return: one count >= 1 per cell,
\* ORDER BY city_count DESC
DensityTables ==
    { <<>>, <<10, 5, 1>>, <<3, 3, 2, 1>>, <<40, 18, 8, 2, 1>>, <<100, 55, 20, 7>> }

SliderValues ==
    { v \in MIN_DENSITY_THRESHOLD..MAX_DENSITY_THRESHOLD : v % DENSITY_SLIDER_STEP = 0 }

\* a run of the page with the density analysis selected (_render_density_heatmap)
RenderDensity ==
    /\ density_view' = build_h3_density_deck(city_counts, density_low, density_high)
    /\ UNCHANGED <<density_low, density_high, city_counts, route_vars, coverage_vars, fn_vars>>

\* the "Low Threshold (%)" slider is moved; the page is run again
SetLowThreshold ==
    \E v \in SliderValues \ {density_low} :
        /\ density_low' = v
        /\ density_view' = build_h3_density_deck(city_counts, v, density_high)
        /\ UNCHANGED <<density_high, city_counts, route_vars, coverage_vars, fn_vars>>

\* the "High Threshold (%)" slider is moved; the page is run again
SetHighThreshold ==
    \E v \in SliderValues \ {density_high} :
        /\ density_high' = v
        /\ density_view' = build_h3_density_deck(city_counts, density_low, v)
        /\ UNCHANGED <<density_low, city_counts, route_vars, coverage_vars, fn_vars>>

\* the coverage analysis has not been run
CoverageIdle ==
    /\ coverage_radius = 0 /\ h3_resolution = 0 /\ station_table = <<>> /\ coverage_view = None

InitDensity ==
    /\ density_low = DEFAULT_DENSITY_LOW_THRESHOLD
    /\ density_high = DEFAULT_DENSITY_HIGH_THRESHOLD
    /\ city_counts \in DensityTables
    /\ density_view = None
    /\ RouteIdle
    /\ CoverageIdle
    /\ FnIdle

NextDensity == RenderDensity \/ SetLowThreshold \/ SetHighThreshold

SpecDensity == InitDensity /\ [][NextDensity]_vars

(***************************************************************************)
(* Station coverage (load_h3_coverage_data) and its controls.              *)
(*                                                                         *)
(* Points lie on a line, a position being a whole number of decimetres.    *)
(* A radius in kilometres is held in units of 0.0001 km, which is also one *)
(* decimetre.  The cells of a resolution are the consecutive intervals of  *)
(* that resolution's width; the database's ST_DWITHIN is taken as          *)
(* distance <= d.                                                          *)
(***************************************************************************)
DEFAULT_H3_RESOLUTION == 5
MIN_H3_RESOLUTION == 3
MAX_H3_RESOLUTION == 8
\* 1.0 km, 0.5 km, 5.0 km and the slider's step 0.5 km
DEFAULT_COVERAGE_RADIUS_KM == 10000
MIN_COVERAGE_RADIUS_KM == 5000
MAX_COVERAGE_RADIUS_KM == 50000
COVERAGE_SLIDER_STEP == 5000

\* the width of a cell in decimetres: twice the average H3 edge length
CellWidth == [r \in MIN_H3_RESOLUTION..MAX_H3_RESOLUTION |->
                 CASE r = 3 -> 1196000 [] r = 4 -> 452000 [] r = 5 -> 170000
                   [] r = 6 -> 64600   [] r = 7 -> 24400  [] r = 8 -> 9220]

H3_POINT_TO_CELL(geography, resolution) == geography \div CellWidth[resolution]

\* ST_CENTROID(H3_CELL_TO_BOUNDARY(cell))
ST_CENTROID(cell, resolution) ==
    cell * CellWidth[resolution] + CellWidth[resolution] \div 2

Abs(x) == IF x < 0 THEN -x ELSE x

\* variant: the comparison is inverted
ST_DWITHIN_Beyond(g1, g2, metres) ==
    g2 /= None /\ Abs(g1 - g2[1]) >= 10 * metres

\* ST_DWITHIN(g1, g2, metres); a NULL geography (None) matches nothing
ST_DWITHIN(g1, g2, metres) ==
    g2 /= None /\ Abs(g1 - g2[1]) <= 10 * metres

\* variant: the radius is cut to whole kilometres before the conversion
radius_m_WholeKm(radius_km) == (radius_km \div 10000) * 1000

\* radius_m = int(radius_km * 1000)
radius_m(radius_km) == radius_km \div 10

\* the geography column of the places table
TABLE_PLACES ==
    << Some(2000), Some(12000), Some(31000), Some(70000), Some(155000),
       Some(420000), Some(1300000), None >>

PointRow(type, geography) == [type |-> type, geography |-> geography]

\* contents of the points table
StationTables ==
    { <<>>,
      << PointRow("bus_stop", Some(3000)), PointRow("station", None) >>,
      << PointRow("station", Some(160000)) >>,
      << PointRow("station", Some(30000)), PointRow("station", Some(36000)) >>,
      << PointRow("station", Some(9610)), PointRow("station", Some(33000)),
         PointRow("station", Some(400000)), PointRow("bus_stop", Some(1290000)),
         PointRow("station", None) >> }

\* the rows of a set of cells, in ascending order
RECURSIVE SortedCells(_)
SortedCells(cells) ==
    IF cells = {} THEN <<>>
    ELSE LET least == CHOOSE c \in cells : \A d \in cells : c <= d
         IN  <<least>> \o SortedCells(cells \ {least})

\* variant: an inner join, which keeps only the cells that have a match
RECURSIVE LeftJoinRows_Inner(_, _, _)
LeftJoinRows_Inner(left, matched, k) ==
    IF k > Len(left) THEN <<>>
    ELSE LET hits == SelectSeq(matched, LAMBDA c : c = left[k])
         IN  [h \in 1..Len(hits) |-> [H3_CELL |-> left[k], IS_COVERED |-> 1]]
             \o LeftJoinRows_Inner(left, matched, k + 1)

\* the rows of a LEFT JOIN b ON a.h3_cell = b.h3_cell for the cells a of left,
\* from the k-th on, matched holding the joined rows of b
RECURSIVE LeftJoinRows(_, _, _)
LeftJoinRows(left, matched, k) ==
    IF k > Len(left) THEN <<>>
    ELSE LET hits == SelectSeq(matched, LAMBDA c : c = left[k])
             rows == IF hits = <<>>
                     THEN << [H3_CELL |-> left[k], IS_COVERED |-> 0] >>
                     ELSE [h \in 1..Len(hits) |-> [H3_CELL |-> left[k], IS_COVERED |-> 1]]
         IN  rows \o LeftJoinRows(left, matched, k + 1)

\* the cells of cells that have station k or a later one within metres, one
\* entry per cell and station
RECURSIVE PairsPerStation(_, _, _, _, _)
PairsPerStation(cells, stations, k, resolution, metres) ==
    IF k > Len(stations) THEN <<>>
    ELSE SortedCells({ c \in cells :
                         ST_DWITHIN(ST_CENTROID(c, resolution), stations[k].geography, metres) })
         \o PairsPerStation(cells, stations, k + 1, resolution, metres)

\* variant: the pairs are selected without DISTINCT
cell_station_pairs_NotDistinct(cells, stations, resolution, metres) ==
    PairsPerStation(cells, stations, 1, resolution, metres)

\* SELECT DISTINCT c.h3_cell ... CROSS JOIN stations s WHERE ST_DWITHIN(...)
cell_station_pairs(cells, stations, resolution, metres) ==
    SortedCells({ c \in cells :
                    \E k \in 1..Len(stations) :
                        ST_DWITHIN(ST_CENTROID(c, resolution), stations[k].geography, metres) })

\* the table the query of load_h3_coverage_data returns
load_h3_coverage_data(points, resolution, radius_km) ==
    LET metres == radius_m(radius_km)
        all_italy_cells ==
            { H3_POINT_TO_CELL(TABLE_PLACES[k][1], resolution) :
                  k \in { k \in 1..Len(TABLE_PLACES) : TABLE_PLACES[k] /= None } }
            \cup
            { H3_POINT_TO_CELL(points[k].geography[1], resolution) :
                  k \in { k \in 1..Len(points) :
                            points[k].geography /= None /\ points[k].type = "station" } }
        stations == SelectSeq(points, LAMBDA row : row.type = "station")
    IN  LeftJoinRows(SortedCells(all_italy_cells),
                     cell_station_pairs(all_italy_cells, stations, resolution, metres), 1)

\* variant: the rate is computed without the test on total_cells
calculate_coverage_stats_Unguarded(df_coverage) ==
    LET total_cells == Len(df_coverage)
        covered_cells == Len(SelectSeq(df_coverage, LAMBDA row : row.IS_COVERED = 1))
    IN  [total_cells |-> total_cells,
         covered_cells |-> covered_cells,
         uncovered_cells |-> total_cells - covered_cells,
         coverage_rate |-> Ratio(covered_cells * 100, total_cells)]

calculate_coverage_stats(df_coverage) ==
    LET total_cells == Len(df_coverage)
        covered_cells == Len(SelectSeq(df_coverage, LAMBDA row : row.IS_COVERED = 1))
    IN  [total_cells |-> total_cells,
         covered_cells |-> covered_cells,
         uncovered_cells |-> total_cells - covered_cells,
         coverage_rate |-> IF total_cells > 0
                           THEN Ratio(covered_cells * 100, total_cells)
                           ELSE Ratio(0, 1)]

\* what a run of the page in coverage mode shows (_render_coverage_analysis):
\* the table, and its statistics unless the table is empty
CoverageView(points, resolution, radius_km) ==
    LET df_coverage == load_h3_coverage_data(points, resolution, radius_km)
    IN  Some([resolution |-> resolution, radius_km |-> radius_km,
              rows |-> df_coverage,
              stats |-> IF df_coverage = <<>> THEN None
                        ELSE Some(calculate_coverage_stats(df_coverage))])

RadiusSliderValues ==
    { v \in MIN_COVERAGE_RADIUS_KM..MAX_COVERAGE_RADIUS_KM : v % COVERAGE_SLIDER_STEP = 0 }

\* a run of the page with the coverage analysis selected
RenderCoverage ==
    /\ coverage_view' = CoverageView(station_table, h3_resolution, coverage_radius)
    /\ UNCHANGED <<coverage_radius, h3_resolution, station_table, route_vars, density_vars, fn_vars>>

\* the "Coverage Radius (km)" slider is moved; the page is run again
SetCoverageRadius ==
    \E v \in RadiusSliderValues \ {coverage_radius} :
        /\ coverage_radius' = v
        /\ coverage_view' = CoverageView(station_table, h3_resolution, v)
        /\ UNCHANGED <<h3_resolution, station_table, route_vars, density_vars, fn_vars>>

\* the "H3 Resolution" input is changed; the page is run again
SetResolution ==
    \E r \in (MIN_H3_RESOLUTION..MAX_H3_RESOLUTION) \ {h3_resolution} :
        /\ h3_resolution' = r
        /\ coverage_view' = CoverageView(station_table, r, coverage_radius)
        /\ UNCHANGED <<coverage_radius, station_table, route_vars, density_vars, fn_vars>>

\* the density analysis has not been run
DensityIdle ==
    /\ density_low = 0 /\ density_high = 0 /\ city_counts = <<>> /\ density_view = None

InitCoverage ==
    /\ coverage_radius = DEFAULT_COVERAGE_RADIUS_KM
    /\ h3_resolution = DEFAULT_H3_RESOLUTION
    /\ station_table \in StationTables
    /\ coverage_view = None
    /\ RouteIdle
    /\ DensityIdle
    /\ FnIdle

NextCoverage == RenderCoverage \/ SetCoverageRadius \/ SetResolution

SpecCoverage == InitCoverage /\ [][NextCoverage]_vars

(***************************************************************************)
(* calculate_coverage_stats called on any table with an IS_COVERED column. *)
(***************************************************************************)
\* longest table given to calculate_coverage_stats
MaxRows == 6

\* the tables of n rows, the k-th row being cell k
CoverageTables(n) ==
    { [k \in 1..n |-> [H3_CELL |-> k, IS_COVERED |-> flags[k]]] : flags \in [1..n -> {0, 1}] }

InitStats ==
    /\ fn_call \in { [fn |-> "calculate_coverage_stats", df_coverage |-> t] :
                        t \in UNION { CoverageTables(n) : n \in 0..MaxRows } }
    /\ fn_return = None
    /\ RunIdle
    /\ RouteIdle
    /\ DensityIdle
    /\ CoverageIdle

CallCoverageStats ==
    /\ fn_return = None
    /\ fn_return' = Some(calculate_coverage_stats(fn_call.df_coverage))
    /\ UNCHANGED <<fn_call, fn_frame, stop_requested, route_vars, density_vars, coverage_vars>>

NextStats == CallCoverageStats

SpecStats == InitStats /\ [][NextStats]_vars

(***************************************************************************)
(* load_h3_coverage_data called twice on the same tables, with two radii.  *)
(***************************************************************************)
\* radius_km arguments, in units of 0.0001 km: values the slider gives and
\* values between them, some with a fraction of a metre
CallRadii == { 0, 4, 4999, 5000, 5009, 9996, 24000, 50000, 1200000 }

InitRadii ==
    /\ fn_call \in { [fn |-> "load_h3_coverage_data", points |-> t, resolution |-> r,
                      radius_km |-> <<r1, r2>>] :
                        t \in StationTables, r \in MIN_H3_RESOLUTION..MAX_H3_RESOLUTION,
                        r1 \in CallRadii, r2 \in CallRadii }
    /\ fn_return = <<>>
    /\ RunIdle
    /\ RouteIdle
    /\ DensityIdle
    /\ CoverageIdle

\* the next of the two calls
CallCoverageData ==
    /\ Len(fn_return) < Len(fn_call.radius_km)
    /\ fn_return' = Append(fn_return,
                           load_h3_coverage_data(fn_call.points, fn_call.resolution,
                                                 fn_call.radius_km[Len(fn_return) + 1]))
    /\ UNCHANGED <<fn_call, fn_frame, stop_requested, route_vars, density_vars, coverage_vars>>

NextRadii == CallCoverageData

SpecRadii == InitRadii /\ [][NextRadii]_vars

(***************************************************************************)
(* build_h3_density_deck called on any table with a CITY_COUNT column,     *)
(* tables whose counts are all 0 included.                                 *)
(***************************************************************************)
\* most rows of a table, and largest count in one
MaxCells == 3
MaxCount == 3

CountTables == UNION { [1..n -> 0..MaxCount] : n \in 0..MaxCells }

InitDeck ==
    /\ fn_call \in { [fn |-> "build_h3_density_deck", df_density |-> t,
                      low_threshold_pct |-> DEFAULT_DENSITY_LOW_THRESHOLD,
                      high_threshold_pct |-> DEFAULT_DENSITY_HIGH_THRESHOLD] :
                        t \in CountTables }
    /\ fn_return = None
    /\ RunIdle
    /\ RouteIdle
    /\ DensityIdle
    /\ CoverageIdle

CallDensityDeck ==
    /\ fn_return = None
    /\ fn_return' = Some(build_h3_density_deck(fn_call.df_density, fn_call.low_threshold_pct,
                                               fn_call.high_threshold_pct))
    /\ UNCHANGED <<fn_call, fn_frame, stop_requested, route_vars, density_vars, coverage_vars>>

NextDeck == CallDensityDeck

SpecDeck == InitDeck /\ [][NextDeck]_vars

(***************************************************************************)
(* The two haversine functions called on a pair of points, in both orders. *)
(***************************************************************************)
\* latitudes and longitudes in tenths of a degree; any two points are less
\* than 60 degrees apart, the range the series of asin is good for
CallLatitudes == { 0, 381, 419, 455, 470 }
CallLongitudes == { -50, 0, 92, 125, 169 }
CallPoints == { <<lat, lon>> : lat \in CallLatitudes, lon \in CallLongitudes }

InitHaversine ==
    /\ fn_call \in { [fn |-> "_haversine_distance", a |-> a, b |-> b] :
                        a \in CallPoints, b \in CallPoints }
    /\ fn_return = None
    /\ RunIdle
    /\ RouteIdle
    /\ DensityIdle
    /\ CoverageIdle

CallHaversine ==
    /\ fn_return = None
    /\ LET a == fn_call.a
           b == fn_call.b
       IN  fn_return' = Some([route_ab |-> _haversine_distance(a[1], a[2], b[1], b[2]),
                              route_ba |-> _haversine_distance(b[1], b[2], a[1], a[2]),
                              nearest_ab |-> _haversine_distance_km(a[1], a[2], b[1], b[2]),
                              nearest_ba |-> _haversine_distance_km(b[1], b[2], a[1], a[2])])
    /\ UNCHANGED <<fn_call, fn_frame, stop_requested, route_vars, density_vars, coverage_vars>>

NextHaversine == CallHaversine

SpecHaversine == InitHaversine /\ [][NextHaversine]_vars

(***************************************************************************)
(* The table of the selected places the map layer is drawn from            *)
(* (_build_selected_places_df), called on every run of the page.           *)
(***************************************************************************)
\* longest list the table is built from
MaxTable == 3

\* the five columns of a row of the table
PlaceRow(place) ==
    [LONGITUDE |-> float(place.longitude), LATITUDE |-> float(place.latitude),
     NAME |-> place.name, OSM_ID |-> place.osm_id, TYPE |-> place.type]

\* the loop over selected_places from its k-th place: a place whose latitude
\* or longitude float() refuses is logged and passed over (continue)
RECURSIVE PlaceRowsFrom(_, _)
PlaceRowsFrom(places, k) ==
    IF k > Len(places) THEN <<>>
    ELSE IF IsFloat(places[k].longitude) /\ IsFloat(places[k].latitude)
    THEN <<PlaceRow(places[k])>> \o PlaceRowsFrom(places, k + 1)
    ELSE PlaceRowsFrom(places, k + 1)

\* the rows of the DataFrame returned; no place and no valid place both give
\* the empty table
_build_selected_places_df(places) ==
    IF places = <<>> THEN <<>> ELSE PlaceRowsFrom(places, 1)

\* a place whose longitude spells no number
BadLongitudePlace == Place("12", "Storta", <<455>>, <<>>)

TablePool == { PLACES[1], PLACES[2], PLACES[3], PLACES[10], BadLongitudePlace }

\* the lists of at most maxlen different places of the pool
TableLists(maxlen) ==
    { l \in UNION { [1..n -> TablePool] : n \in 0..maxlen } :
        \A a, b \in 1..Len(l) : a /= b => l[a] /= l[b] }

InitTable ==
    /\ fn_call \in { [fn |-> "_build_selected_places_df", selected_places |-> l] :
                        l \in TableLists(MaxTable) }
    /\ fn_return = None
    /\ RunIdle
    /\ RouteIdle
    /\ DensityIdle
    /\ CoverageIdle

CallSelectedPlacesDf ==
    /\ fn_return = None
    /\ fn_return' = Some(_build_selected_places_df(fn_call.selected_places))
    /\ UNCHANGED <<fn_call, fn_frame, stop_requested, route_vars, density_vars, coverage_vars>>

NextTable == CallSelectedPlacesDf

SpecTable == InitTable /\ [][NextTable]_vars

(***************************************************************************)
(* The "H3 Resolution" input of the H3 page and the queries its runs issue *)
(* (_render_controls, build_h3_index_demo_page).  fn_call is the value     *)
(* last typed into the input, fn_return the last query issued.             *)
(***************************************************************************)
\* the finest resolution of the H3 grid ("H3 resolution (0-15)")
H3_FINEST_RESOLUTION == 15

\* the values typed into the input: every resolution of the H3 grid
ResolutionInputs == 0..H3_FINEST_RESOLUTION

\* the analyses of H3_ANALYSIS_TYPES
AnalysisTypes == {"grid", "density", "coverage"}

\* variant: a value outside the range is replaced by the nearest bound
number_input_Clamped(value, typed) ==
    IF typed < MIN_H3_RESOLUTION THEN MIN_H3_RESOLUTION
    ELSE IF typed > MAX_H3_RESOLUTION THEN MAX_H3_RESOLUTION
    ELSE typed

\* st.number_input(min_value=MIN_H3_RESOLUTION, max_value=MAX_H3_RESOLUTION,
\* key=RESOLUTION_KEY): a typed value outside the range is reported invalid
\* by the input and is not committed; the session keeps value
number_input(value, typed) ==
    IF typed >= MIN_H3_RESOLUTION /\ typed <= MAX_H3_RESOLUTION THEN typed ELSE value

\* the query of an analysis: load_h3_grid_data, load_h3_density_data or
\* load_h3_coverage_data with the resolution of the session
IssuedQuery(analysis, resolution) == [analysis |-> analysis, resolution |-> resolution]

\* a value is typed into the input; a committed change runs the page, which
\* issues the query of the analysis selected
EnterResolution ==
    \E typed \in ResolutionInputs, analysis \in AnalysisTypes :
        LET committed == number_input(h3_resolution, typed)
        IN  /\ fn_call' = [fn |-> "number_input", value |-> typed]
            /\ h3_resolution' = committed
            /\ fn_return' = IF committed /= h3_resolution
                            THEN Some(IssuedQuery(analysis, committed))
                            ELSE fn_return
            /\ UNCHANGED <<fn_frame, stop_requested, coverage_radius, station_table,
                           coverage_view, route_vars, density_vars>>

\* the analysis type is changed: the page runs with the resolution of the session
SelectAnalysis ==
    \E analysis \in AnalysisTypes :
        /\ fn_return' = Some(IssuedQuery(analysis, h3_resolution))
        /\ UNCHANGED <<fn_call, fn_frame, stop_requested, coverage_vars, route_vars, density_vars>>

InitResolution ==
    /\ h3_resolution = DEFAULT_H3_RESOLUTION
    /\ coverage_radius = 0 /\ station_table = <<>> /\ coverage_view = None
    /\ fn_call = None
    /\ fn_return = None
    /\ RunIdle
    /\ RouteIdle
    /\ DensityIdle

NextResolution == EnterResolution \/ SelectAnalysis

SpecResolution == InitResolution /\ [][NextResolution]_vars

(***************************************************************************)
(* Route requests whose points include a place with an infinite latitude   *)
(* ("inf" is a string float() accepts).                                    *)
(***************************************************************************)
\* longest point list of these requests
MaxFallback == 3

NonFinitePlace == Place("11", "Infinito", <<inf>>, <<101>>)

FallbackPool == { PLACES[1], PLACES[2], PLACES[3], NonFinitePlace }

\* the lists of 2 to maxlen different places of the pool
FallbackLists(maxlen) ==
    { l \in UNION { [1..n -> FallbackPool] : n \in 2..maxlen } :
        \A a, b \in 1..Len(l) : a /= b => l[a] /= l[b] }

\* the text of the query spells an infinite coordinate as inf, which is no
\* number of the database: the query raises
InvalidQuery(lat1, lon1, lat2, lon2) ==
    isinf(lat1) \/ isinf(lon1) \/ isinf(lat2) \/ isinf(lon2)

\* the coordinates of the k-th pair of the loop
PairCoords(coords, k) ==
    LET pair == LoopPairs(Len(coords))[k]
    IN  << coords[pair[1] + 1][1], coords[pair[1] + 1][2],
           coords[pair[2] + 1][1], coords[pair[2] + 1][2] >>

\* the outcomes the provider can have for the queries of a request
ProviderOutcomes(places) ==
    { o \in AllOutcomes(Len(places)) :
        \A k \in 1..NumPairs(Len(places)) :
            LET c == PairCoords(Coords(places), k)
            IN  InvalidQuery(c[1], c[2], c[3], c[4]) => o[k] = "fail" }

InitFallback ==
    /\ selected_places \in FallbackLists(MaxFallback)
    /\ shortest_path_result = None
    /\ distances = <<>>
    /\ provider_outcomes \in ProviderOutcomes(selected_places)
    /\ route_message = "none"
    /\ last_selection = None
    /\ evaluated = 0
    /\ H3Idle

NextFallback == Calculate

SpecFallback == InitFallback /\ [][NextFallback]_vars

(***************************************************************************)
(* A route calculation taken one loop iteration at a time, while the       *)
(* script runner may be asked to stop the run (the Stop button, or a new   *)
(* interaction with the page).  The calculation calls no Streamlit         *)
(* command before it stores its result, and reads no signal of its own.    *)
(***************************************************************************)
\* the permutations of pool that start with its k-th or a later element, in
\* the order itertools yields them
RECURSIVE PermutationsFrom(_, _)
PermutationsFrom(pool, k) ==
    IF pool = <<>> THEN << <<>> >>
    ELSE IF k > Len(pool) THEN <<>>
    ELSE LET rest == PermutationsFrom(Without(pool, k), 1)
         IN  [m \in 1..Len(rest) |-> <<pool[k]>> \o rest[m]] \o PermutationsFrom(pool, k + 1)

\* list(permutations(all_cities))
permutations(pool) == PermutationsFrom(pool, 1)

\* all_cities = list(range(n))
range(n) == [i \in 1..n |-> i - 1]

\* the locals of the calculation: where it is (pc), the matrix so far, the
\* number of the next pair or permutation, and (best_path, best_distance)
Frame(pc, dm, k, best) == [pc |-> pc, distances |-> dm, k |-> k, best |-> best]

NoBest == [path |-> None, distance |-> inf, tried |-> 0]

Running(frame) == frame /= None /\ frame[1].pc \in {"matrix", "solve", "store"}

\* the button is pressed: the tests before the matrix is created
StartRun ==
    /\ fn_frame = None
    /\ IF TooFew(selected_places)
       THEN /\ route_message' = "warning: select at least 2 places"
            /\ fn_frame' = Some(Frame("returned", <<>>, 0, NoBest))
       ELSE IF ~ValidCoords(selected_places)
       THEN /\ route_message' = "error: invalid place data"
            /\ fn_frame' = Some(Frame("returned", <<>>, 0, NoBest))
       ELSE /\ route_message' = "none"
            /\ fn_frame' = Some(Frame("matrix", ZeroMatrix(Len(selected_places)), 1, NoBest))
    /\ UNCHANGED <<selected_places, shortest_path_result, distances, provider_outcomes,
                   last_selection, evaluated, fn_call, fn_return, stop_requested,
                   density_vars, coverage_vars>>

\* one iteration of the nested loop of _calculate_distance_matrix
MatrixStep ==
    /\ fn_frame /= None
    /\ fn_frame[1].pc = "matrix"
    /\ LET frame == fn_frame[1]
           pair == LoopPairs(Len(selected_places))[frame.k]
           next == PairStep(frame.distances, Coords(selected_places), pair[1], pair[2],
                            provider_outcomes[frame.k])
       IN  IF next = ValueError
           THEN /\ fn_frame' = Some(Frame("raised", frame.distances, frame.k, NoBest))
                /\ route_message' = "exception: math domain error"
                /\ UNCHANGED distances
           ELSE IF frame.k = NumPairs(Len(selected_places))
           THEN /\ fn_frame' = Some(Frame("solve", next, 1, NoBest))
                /\ distances' = next
                /\ UNCHANGED route_message
           ELSE /\ fn_frame' = Some(Frame("matrix", next, frame.k + 1, NoBest))
                /\ UNCHANGED <<distances, route_message>>
    /\ UNCHANGED <<selected_places, shortest_path_result, provider_outcomes,
                   last_selection, evaluated, fn_call, fn_return, stop_requested,
                   density_vars, coverage_vars>>

\* _solve_tsp_brute_force: the answer for two points, or one iteration of the
\* loop over the permutations
SolveStep ==
    /\ fn_frame /= None
    /\ fn_frame[1].pc = "solve"
    /\ LET frame == fn_frame[1]
           n == Len(frame.distances)
           perms == permutations(range(n))
       IN  IF n = 2
           THEN fn_frame' = Some(Frame("store", frame.distances, 1,
                                       [path |-> <<0, 1>>, distance |-> frame.distances[1][2],
                                        tried |-> 0]))
           ELSE \E best \in {TryPath(frame.distances, frame.best, perms[frame.k])} :
                    fn_frame' = Some(Frame(IF frame.k = Len(perms) THEN "store" ELSE "solve",
                                           frame.distances, frame.k + 1, best))
    /\ UNCHANGED <<route_vars, fn_call, fn_return, stop_requested, density_vars, coverage_vars>>

\* st.session_state[SHORTEST_PATH_KEY] = result; st.rerun()
StoreResult ==
    /\ fn_frame /= None
    /\ fn_frame[1].pc = "store"
    /\ shortest_path_result' = Some(StoredResult(fn_frame[1].best, selected_places))
    /\ evaluated' = fn_frame[1].best.tried
    /\ route_message' = "rerun"
    /\ fn_frame' = Some([fn_frame[1] EXCEPT !.pc = "stored"])
    /\ UNCHANGED <<selected_places, distances, provider_outcomes, last_selection,
                   fn_call, fn_return, stop_requested, density_vars, coverage_vars>>

\* the script runner is asked to stop while the calculation runs
RequestStop ==
    /\ Running(fn_frame)
    /\ ~stop_requested
    /\ stop_requested' = TRUE
    /\ UNCHANGED <<route_vars, fn_call, fn_return, fn_frame, density_vars, coverage_vars>>

InitRun ==
    /\ selected_places \in FallbackLists(MaxFallback)
    /\ shortest_path_result = None
    /\ distances = <<>>
    /\ provider_outcomes \in ProviderOutcomes(selected_places)
    /\ route_message = "none"
    /\ last_selection = None
    /\ evaluated = 0
    /\ H3Idle

NextRun == StartRun \/ MatrixStep \/ SolveStep \/ StoreResult \/ RequestStop

SpecRun == InitRun /\ [][NextRun]_vars

(***************************************************************************)
(* The pairs of _calculate_distance_matrix computed in any order: each     *)
(* iteration of the nested loop is applied once, to the matrix the         *)
(* iterations before it left, whichever they were.                         *)
(***************************************************************************)
\* the matrix so far and the numbers of the pairs computed, in the order
\* they were computed
FanOut(dm, done) == [pc |-> "fanout", distances |-> dm, done |-> done]

InSeq(x, seq) == \E m \in 1..Len(seq) : seq[m] = x

\* distances = [[0.0] * n for _ in range(n)]
StartFanOut ==
    /\ fn_frame = None
    /\ fn_frame' = Some(FanOut(ZeroMatrix(Len(selected_places)), <<>>))
    /\ UNCHANGED <<route_vars, fn_call, fn_return, stop_requested, density_vars, coverage_vars>>

\* the loop body for one pair not computed yet
ComputePair ==
    /\ fn_frame /= None
    /\ fn_frame[1].distances /= ValueError
    /\ \E k \in 1..NumPairs(Len(selected_places)) :
           /\ ~InSeq(k, fn_frame[1].done)
           /\ LET pair == LoopPairs(Len(selected_places))[k]
              IN  fn_frame' = Some(FanOut(PairStep(fn_frame[1].distances, Coords(selected_places),
                                                   pair[1], pair[2], provider_outcomes[k]),
                                          Append(fn_frame[1].done, k)))
    /\ UNCHANGED <<route_vars, fn_call, fn_return, stop_requested, density_vars, coverage_vars>>

InitFanOut ==
    /\ selected_places \in FallbackLists(MaxFallback)
    /\ shortest_path_result = None
    /\ distances = <<>>
    /\ provider_outcomes \in ProviderOutcomes(selected_places)
    /\ route_message = "none"
    /\ last_selection = None
    /\ evaluated = 0
    /\ H3Idle

NextFanOut == StartFanOut \/ ComputePair

SpecFanOut == InitFanOut /\ [][NextFanOut]_vars

(***************************************************************************)
(* Selection of places on the Shortest Path page: clicks on the map        *)
(* (_handle_place_selection), the Remove buttons and Clear All             *)
(* (_render_selected_places_panel).                                        *)
(***************************************************************************)
\* variant: only the last place of the list is compared
AlreadySelected_LastOnly(places, osm_id) ==
    places /= <<>> /\ places[Len(places)].osm_id = osm_id

\* any(p.get("osm_id") == osm_id for p in selected_places)
AlreadySelected(places, osm_id) == \E k \in 1..Len(places) : places[k].osm_id = osm_id

\* variant: the limit is tested with > in place of >=
AtLimit_OffByOne(places) == Len(places) > MAX_SELECTABLE_PLACES

\* len(selected_places) >= MAX_PLACES
AtLimit(places) == Len(places) >= MAX_SELECTABLE_PLACES

\* selected_places.pop(idx), idx counted from 0
Pop(places, idx) == Without(places, idx + 1)

\* variant: the clicked place is not compared with the last processed one
_handle_place_selection_NoMarkerTest(feature) ==
    LET osm_id == feature.osm_id
    IN  IF AlreadySelected(selected_places, osm_id)
        THEN /\ last_selection' = Some(osm_id)
             /\ route_message' = "none"
             /\ UNCHANGED <<selected_places, shortest_path_result>>
        ELSE IF AtLimit(selected_places)
        THEN /\ route_message' = "warning: maximum places"
             /\ last_selection' = Some(osm_id)
             /\ UNCHANGED <<selected_places, shortest_path_result>>
        ELSE /\ selected_places' = Append(selected_places, feature)
             /\ last_selection' = Some(osm_id)
             /\ shortest_path_result' = None
             /\ route_message' = "rerun"

\* variant: the click refused at the limit also clears the stored result
_handle_place_selection_ClearsAtLimit(feature) ==
    LET osm_id == feature.osm_id
    IN  IF last_selection = Some(osm_id)
        THEN /\ route_message' = "none"
             /\ UNCHANGED <<selected_places, last_selection, shortest_path_result>>
        ELSE IF AlreadySelected(selected_places, osm_id)
        THEN /\ last_selection' = Some(osm_id)
             /\ route_message' = "none"
             /\ UNCHANGED <<selected_places, shortest_path_result>>
        ELSE IF AtLimit(selected_places)
        THEN /\ route_message' = "warning: maximum places"
             /\ last_selection' = Some(osm_id)
             /\ shortest_path_result' = None
             /\ UNCHANGED selected_places
        ELSE /\ selected_places' = Append(selected_places, feature)
             /\ last_selection' = Some(osm_id)
             /\ shortest_path_result' = None
             /\ route_message' = "rerun"

\* the map reports a click on feature, and the page is run; route_message is
\* what this run of the handler shows
_handle_place_selection(feature) ==
    LET osm_id == feature.osm_id
    IN  IF last_selection = Some(osm_id)
        THEN /\ route_message' = "none"
             /\ UNCHANGED <<selected_places, last_selection, shortest_path_result>>
        ELSE IF AlreadySelected(selected_places, osm_id)
        THEN /\ last_selection' = Some(osm_id)
             /\ route_message' = "none"
             /\ UNCHANGED <<selected_places, shortest_path_result>>
        ELSE IF AtLimit(selected_places)
        THEN /\ route_message' = "warning: maximum places"
             /\ last_selection' = Some(osm_id)
             /\ UNCHANGED <<selected_places, shortest_path_result>>
        ELSE /\ selected_places' = Append(selected_places, feature)
             /\ last_selection' = Some(osm_id)
             /\ shortest_path_result' = None
             /\ route_message' = "rerun"

\* the places a click can hit: those selected, and the next place of the
\* map's list after every selected one (new places are clicked in list order)
ClickTargets ==
    LET later == { k \in 1..Len(PLACES) :
                     \A m \in k..Len(PLACES) :
                         ~AlreadySelected(selected_places, PLACES[m].osm_id) }
    IN  { selected_places[k] : k \in 1..Len(selected_places) }
        \cup { PLACES[k] : k \in { k \in later : \A m \in later : k <= m } }

PickPlace ==
    \E feature \in ClickTargets :
        /\ _handle_place_selection(feature)
        /\ UNCHANGED <<distances, provider_outcomes, evaluated,
                       density_vars, coverage_vars, fn_vars>>

\* a run of the page with nothing selected on the map: the handler returns
\* at once
PickNothing ==
    /\ route_message' = "none"
    /\ UNCHANGED <<selected_places, last_selection, shortest_path_result, distances,
                   provider_outcomes, evaluated, density_vars, coverage_vars, fn_vars>>

\* variant: the Remove button leaves the stored result in place
RemovePlace_KeepsResult ==
    \E idx \in 0..(Len(selected_places) - 1) :
        /\ selected_places' = Pop(selected_places, idx)
        /\ route_message' = "rerun"
        /\ UNCHANGED <<shortest_path_result, last_selection, distances, provider_outcomes,
                       evaluated, density_vars, coverage_vars, fn_vars>>

\* the Remove button of row idx
RemovePlace ==
    \E idx \in 0..(Len(selected_places) - 1) :
        /\ selected_places' = Pop(selected_places, idx)
        /\ shortest_path_result' = None
        /\ route_message' = "rerun"
        /\ UNCHANGED <<last_selection, distances, provider_outcomes, evaluated,
                       density_vars, coverage_vars, fn_vars>>

\* the Clear All button, shown when the list is not empty
ClearAll ==
    /\ selected_places /= <<>>
    /\ selected_places' = <<>>
    /\ shortest_path_result' = None
    /\ route_message' = "rerun"
    /\ UNCHANGED <<last_selection, distances, provider_outcomes, evaluated,
                   density_vars, coverage_vars, fn_vars>>

InitSelect ==
    /\ RouteIdle
    /\ H3Idle

NextSelect == PickPlace \/ PickNothing \/ RemovePlace \/ ClearAll

SpecSelect == InitSelect /\ [][NextSelect]_vars

(***************************************************************************)
(* The page after a route was calculated for the first k places of the map *)
(* picked in order, every query having succeeded, and the clicks, Remove   *)
(* and Clear All events that follow.                                       *)
(***************************************************************************)
\* the numbers of places picked before the calculation
PickedBefore == {2, 3, MAX_SELECTABLE_PLACES}

InitCalculated ==
    \E k \in PickedBefore :
        \E dm \in {_calculate_distance_matrix(Coords(SubSeq(PLACES, 1, k)),
                                               [p \in 1..NumPairs(k) |-> "ok"])} :
            \E best \in {_solve_tsp_brute_force(dm)} :
                /\ selected_places = SubSeq(PLACES, 1, k)
                /\ provider_outcomes = [p \in 1..NumPairs(k) |-> "ok"]
                /\ distances = dm
                /\ shortest_path_result = Some(StoredResult(best, selected_places))
                /\ evaluated = best.tried
                /\ route_message = "rerun"
                /\ last_selection = Some(PLACES[k].osm_id)
                /\ H3Idle

SpecCalculated == InitCalculated /\ [][NextSelect]_vars

(***************************************************************************)
(* A session of the Shortest Path page over a map of a few places: clicks, *)
(* Remove, Clear All and the Calculate button, in any order.               *)
(***************************************************************************)
\* a click on any place of the map
PickSessionPlace ==
    \E feature \in FallbackPool :
        /\ _handle_place_selection(feature)
        /\ UNCHANGED <<distances, provider_outcomes, evaluated,
                       density_vars, coverage_vars, fn_vars>>

\* the "Calculate Shortest Path" button, disabled under two places; the
\* queries of the request succeed or raise in any way the provider allows
PressCalculate ==
    /\ Len(selected_places) >= 2
    /\ \E outcomes \in ProviderOutcomes(selected_places) :
           /\ _calculate_shortest_path(outcomes)
           /\ UNCHANGED <<density_vars, coverage_vars, fn_vars>>

InitSession ==
    /\ RouteIdle
    /\ H3Idle

NextSession == PickSessionPlace \/ PickNothing \/ RemovePlace \/ ClearAll \/ PressCalculate

SpecSession == InitSession /\ [][NextSession]_vars

(***************************************************************************)
(* Route requests up to one point above the cap, the provider answering    *)
(* every query of a request or none of them.                               *)
(***************************************************************************)
UniformOutcomes(n) == { [k \in 1..NumPairs(n) |-> o] : o \in {"ok", "fail"} }

InitCap ==
    /\ selected_places \in RequestLists(MAX_SELECTABLE_PLACES + 1)
    /\ shortest_path_result = None
    /\ distances = <<>>
    /\ provider_outcomes \in UniformOutcomes(Len(selected_places))
    /\ route_message = "none"
    /\ last_selection = None
    /\ evaluated = 0
    /\ H3Idle

SpecCap == InitCap /\ [][NextRoute]_vars

(***************************************************************************)
(* Properties of the route optimizer.                                      *)
(***************************************************************************)
\* the orderings of the indices 0..n-1, as sequences of length n
Orderings(n) == { p \in [1..n -> 0..(n - 1)] : \A a, b \in 1..n : p[a] = p[b] => a = b }

OrderingsOf == [n \in 0..(MaxN + 1) |-> Orderings(n)]

\* the sum of the matrix entries along the consecutive hops of an ordering
RECURSIVE HopSumFrom(_, _, _)
HopSumFrom(dm, p, i) ==
    IF i + 1 > Len(p) THEN 0 ELSE dm[p[i] + 1][p[i + 1] + 1] + HopSumFrom(dm, p, i + 1)

HopSum(dm, p) == HopSumFrom(dm, p, 1)

\* p comes before q, or is q, in lexicographic order
LexLeq(p, q) ==
    \/ p = q
    \/ \E k \in 1..Len(p) : p[k] < q[k] /\ \A m \in 1..(k - 1) : p[m] = q[m]

\* a route result computed for 2..MAX_SELECTABLE_PLACES points is stored
Solved ==
    /\ shortest_path_result /= None
    /\ Len(distances) >= 2
    /\ Len(distances) <= MAX_SELECTABLE_PLACES

\* C1: the total distance returned equals the minimum, over all orderings of
\* the indices 0..N-1, of the sum of the N-1 consecutive hops of the ordering
\* (open path, no leg back to the start).
C1_TotalIsMinimumOverOrderings ==
    Solved =>
        LET total == shortest_path_result[1].total_distance
            all == OrderingsOf[Len(distances)]
        IN  /\ \E p \in all : HopSum(distances, p) = total
            /\ \A p \in all : total <= HopSum(distances, p)

\* a result over three points or more where some ordering is strictly longer
C1_Witness ==
    /\ Solved
    /\ Len(distances) >= 3
    /\ \E p \in OrderingsOf[Len(distances)] :
          HopSum(distances, p) > shortest_path_result[1].total_distance

\* C2: among the orderings of minimal total the one returned is the first in
\* lexicographic order.
C2_FirstMinimalOrderingWins ==
    Solved =>
        LET r == shortest_path_result[1]
        IN  \A p \in OrderingsOf[Len(distances)] :
                HopSum(distances, p) = r.total_distance => LexLeq(r.path, p)

\* a result over three points or more whose total is reached by another ordering too
C2_Witness ==
    /\ Solved
    /\ Len(distances) >= 3
    /\ \E p \in OrderingsOf[Len(distances)] :
          /\ p /= shortest_path_result[1].path
          /\ HopSum(distances, p) = shortest_path_result[1].total_distance

\* C3: the order returned is a permutation of 0..N-1 of length N and the total
\* is non-negative and is the sum of the matrix entries along that order.
C3_ResultIsPermutationWithItsTotal ==
    Solved =>
        LET r == shortest_path_result[1]
            n == Len(selected_places)
        IN  /\ Len(r.path) = n
            /\ { r.path[k] : k \in 1..Len(r.path) } = 0..(n - 1)
            /\ r.total_distance >= 0
            /\ r.total_distance = HopSum(distances, r.path)

\* a result whose order is not the identity order
C3_Witness ==
    /\ Solved
    /\ Len(distances) >= 3
    /\ shortest_path_result[1].path /= [k \in 1..Len(distances) |-> k - 1]

\* C4: a request with more than MAX_SELECTABLE_PLACES points is rejected with
\* TooManyPoints: no matrix is built and no result is stored for it.
C4_RequestAboveCapIsRejected ==
    (Len(selected_places) > MAX_SELECTABLE_PLACES /\ ValidCoords(selected_places)
        /\ route_message /= "none") =>
        /\ route_message = "error: too many points"
        /\ shortest_path_result = None
        /\ distances = <<>>

\* C5: a request with fewer than 2 points is refused: the optimizer is not
\* run, and no result is stored.
C5_RequestBelowTwoIsRefused ==
    (Len(selected_places) < 2) =>
        /\ shortest_path_result = None
        /\ distances = <<>>
        /\ route_message \in {"none", "warning: select at least 2 places"}

\* a one-point request has been made and refused
C5_Witness ==
    /\ Len(selected_places) = 1
    /\ route_message = "warning: select at least 2 places"

\* a request for two or more places with numeric coordinates has been handled
Handled ==
    /\ route_message /= "none"
    /\ Len(selected_places) >= 2
    /\ ValidCoords(selected_places)

\* C6: whatever pairs the provider fails on, the build completes; each pair the
\* provider answered holds the provider's value, each pair it failed on holds
\* the haversine value, and no pair is left out.
C6_PerPairFallback ==
    Handled =>
        LET n == Len(selected_places)
            coords == Coords(selected_places)
            pairs == LoopPairs(n)
        IN  /\ shortest_path_result /= None
            /\ Len(distances) = n
            /\ Len(pairs) = NumPairs(n)
            /\ \A k \in 1..Len(pairs) :
                  LET i == pairs[k][1]
                      j == pairs[k][2]
                      native == ST_DISTANCE(coords[i + 1][1], coords[i + 1][2],
                                            coords[j + 1][1], coords[j + 1][2])
                      fallback == _haversine_distance(coords[i + 1][1], coords[i + 1][2],
                                                      coords[j + 1][1], coords[j + 1][2])
                  IN  distances[i + 1][j + 1] =
                          IF provider_outcomes[k] = "ok" THEN native ELSE fallback

\* a build where the provider failed on a pair after answering, with another
\* value than the fallback's, an earlier one
C6_Witness ==
    /\ Handled
    /\ \E k, m \in 1..Len(provider_outcomes) :
          /\ k < m
          /\ provider_outcomes[k] = "ok"
          /\ provider_outcomes[m] = "fail"
          /\ LET i == LoopPairs(Len(selected_places))[k][1]
                 j == LoopPairs(Len(selected_places))[k][2]
                 coords == Coords(selected_places)
             IN  distances[i + 1][j + 1] /=
                     _haversine_distance(coords[i + 1][1], coords[i + 1][2],
                                         coords[j + 1][1], coords[j + 1][2])

\* C7: the matrix built is square, one row and one column per point in input
\* order, symmetric, zero on the diagonal and nowhere negative.
C7_MatrixShape ==
    Handled =>
        LET n == Len(selected_places)
        IN  /\ Len(distances) = n
            /\ \A i \in 1..n : Len(distances[i]) = n
            /\ \A i, j \in 1..n :
                  /\ distances[i][j] = distances[j][i]
                  /\ distances[i][j] >= 0
            /\ \A i \in 1..n : distances[i][i] = 0

\* a matrix holding values of the provider and values of the fallback
C7_Witness ==
    /\ Handled
    /\ Len(distances) >= 3
    /\ \E k, m \in 1..Len(provider_outcomes) :
          provider_outcomes[k] = "ok" /\ provider_outcomes[m] = "fail"
    /\ \A i, j \in 1..Len(distances) : i /= j => distances[i][j] > 0

(***************************************************************************)
(* Properties of the density classification.                               *)
(***************************************************************************)
\* the category of a count by the thresholds high*max/100 and low*max/100,
\* both inclusive
ExactCategory(count, max_count, low_pct, high_pct) ==
    IF 100 * count >= high_pct * max_count THEN "High"
    ELSE IF 100 * count >= low_pct * max_count THEN "Medium"
    ELSE "Low"

\* C8: a cell is HIGH iff count >= high*max/100, MEDIUM iff it is not HIGH and
\* count >= low*max/100, LOW otherwise; a count exactly at a threshold value
\* belongs to the higher category.
C8_InclusiveThreePartition ==
    density_view /= None =>
        LET v == density_view[1]
        IN  \A k \in 1..Len(v.CITY_COUNT) :
                v.DENSITY_CATEGORY[k] =
                    ExactCategory(v.CITY_COUNT[k], v.max_count,
                                  v.low_threshold_pct, v.high_threshold_pct)

\* C9: no density classification is performed with a low threshold greater
\* than the high threshold.
C9_LowNeverAboveHigh ==
    density_view /= None =>
        density_view[1].low_threshold_pct <= density_view[1].high_threshold_pct

(***************************************************************************)
(* Properties of the coverage analysis.                                    *)
(***************************************************************************)
\* the positions of the anchors: the stations that have a geography
Anchors ==
    { station_table[k].geography[1] :
        k \in { k \in 1..Len(station_table) :
                  station_table[k].type = "station" /\ station_table[k].geography /= None } }

\* C10: a cell of the coverage result is flagged 1 iff the distance from its
\* centroid to at least one station is at most the requested radius, and is
\* flagged 0 otherwise.
C10_CoveredIffCentroidWithinRadius ==
    coverage_view /= None =>
        LET v == coverage_view[1]
        IN  \A k \in 1..Len(v.rows) :
                /\ v.rows[k].IS_COVERED \in {0, 1}
                /\ v.rows[k].IS_COVERED = 1 <=>
                       \E a \in Anchors :
                           Abs(ST_CENTROID(v.rows[k].H3_CELL, v.resolution) - a) <= v.radius_km

\* a result with a covered and an uncovered cell, the covered one with its
\* centroid exactly the radius away from its only station in reach, and an
\* uncovered one that has a station inside it
C10_Witness ==
    /\ coverage_view /= None
    /\ LET v == coverage_view[1]
           Centre(k) == ST_CENTROID(v.rows[k].H3_CELL, v.resolution)
       IN  /\ \E k \in 1..Len(v.rows) :
                 /\ v.rows[k].IS_COVERED = 1
                 /\ \E a \in Anchors : Abs(Centre(k) - a) = v.radius_km
                 /\ \A a \in Anchors : Abs(Centre(k) - a) >= v.radius_km
           /\ \E k \in 1..Len(v.rows) :
                 /\ v.rows[k].IS_COVERED = 0
                 /\ \E a \in Anchors : H3_POINT_TO_CELL(a, v.resolution) = v.rows[k].H3_CELL

\* the cells of the places that have a geography, at a resolution
PlaceCells(resolution) ==
    { H3_POINT_TO_CELL(TABLE_PLACES[k][1], resolution) :
        k \in { k \in 1..Len(TABLE_PLACES) : TABLE_PLACES[k] /= None } }

\* C11: with no anchor, whatever the radius, the coverage table is produced,
\* holds every candidate cell, flags each of them uncovered, and the coverage
\* rate is 0.
C11_NoAnchorAllUncovered ==
    (coverage_view /= None /\ Anchors = {}) =>
        LET v == coverage_view[1]
        IN  /\ { v.rows[k].H3_CELL : k \in 1..Len(v.rows) } = PlaceCells(v.resolution)
            /\ Len(v.rows) = Cardinality(PlaceCells(v.resolution))
            /\ \A k \in 1..Len(v.rows) : v.rows[k].IS_COVERED = 0
            /\ v.stats /= None
            /\ v.stats[1].covered_cells = 0
            /\ v.stats[1].coverage_rate.num = 0
            /\ v.stats[1].coverage_rate.den > 0

\* a coverage table of several cells computed from a points table that has
\* rows but no anchor among them
C11_Witness ==
    /\ coverage_view /= None
    /\ Anchors = {}
    /\ station_table /= <<>>
    /\ Len(coverage_view[1].rows) > 1
    /\ coverage_view[1].radius_km = MAX_COVERAGE_RADIUS_KM

\* the rows of a table flagged covered
CoveredRows(df_coverage) ==
    { k \in 1..Len(df_coverage) : df_coverage[k].IS_COVERED = 1 }

\* C12: total_cells is the number of rows, covered_cells the number of rows
\* flagged 1, uncovered_cells their difference, both are >= 0; coverage_rate is
\* covered / total * 100, is the number 0 when there is no row, and lies in
\* [0, 100].
C12_CoverageStats ==
    fn_return /= None =>
        LET t == fn_call.df_coverage
            r == fn_return[1]
            rate == r.coverage_rate
        IN  /\ r.total_cells = Len(t)
            /\ r.covered_cells = Cardinality(CoveredRows(t))
            /\ r.uncovered_cells = r.total_cells - r.covered_cells
            /\ r.covered_cells >= 0 /\ r.uncovered_cells >= 0
            /\ rate.den > 0
            /\ rate.num * r.total_cells = r.covered_cells * 100 * rate.den
            /\ (r.total_cells = 0 => rate.num = 0)
            /\ 0 <= rate.num /\ rate.num <= 100 * rate.den

\* the statistics of the empty table have been computed
C12_Witness ==
    /\ fn_return /= None
    /\ fn_call.df_coverage = <<>>

\* the cells a coverage table flags covered
CoveredCells(df_coverage) ==
    { df_coverage[k].H3_CELL : k \in CoveredRows(df_coverage) }

\* both calls of load_h3_coverage_data have returned
BothReturned ==
    /\ fn_call /= None
    /\ fn_call.fn = "load_h3_coverage_data"
    /\ Len(fn_return) = 2

\* C13: for the same tables and radii r1 <= r2, every cell covered at r1 is
\* covered at r2 and the number of covered rows at r2 is at least that at r1.
C13_CoverageMonotoneInRadius ==
    (BothReturned /\ fn_call.radius_km[1] <= fn_call.radius_km[2]) =>
        /\ CoveredCells(fn_return[1]) \subseteq CoveredCells(fn_return[2])
        /\ Cardinality(CoveredRows(fn_return[1])) <= Cardinality(CoveredRows(fn_return[2]))

\* two radii that are not whole metres, the larger one covering more cells
C13_Witness ==
    /\ BothReturned
    /\ fn_call.radius_km[1] < fn_call.radius_km[2]
    /\ fn_call.radius_km[1] % 10 /= 0
    /\ fn_call.radius_km[2] % 10 /= 0
    /\ CoveredCells(fn_return[1]) /= {}
    /\ CoveredCells(fn_return[1]) /= CoveredCells(fn_return[2])

\* C14: the total returned is at most the total of the identity order
\* 0, 1, ..., N-1.
C14_TotalAtMostIdentityOrder ==
    Solved =>
        shortest_path_result[1].total_distance
            <= HopSum(distances, [k \in 1..Len(distances) |-> k - 1])

\* a result for the largest number of points allowed that is shorter than the
\* identity order
C14_Witness ==
    /\ Solved
    /\ Len(distances) = MAX_SELECTABLE_PLACES
    /\ shortest_path_result[1].total_distance
           < HopSum(distances, [k \in 1..Len(distances) |-> k - 1])

\* what the loop over the permutations returns for a matrix, without the
\* shortcuts for n <= 2
GeneralEnumeration(dm) ==
    ForPermutations(dm, <<>>, [i \in 1..Len(dm) |-> i - 1], 1,
                    [path |-> None, distance |-> inf, tried |-> 0])

\* C15: for two points the order and the total returned by the shortcut are
\* those the enumeration of the permutations would return.
C15_TwoPointShortcutAgrees ==
    (Solved /\ Len(distances) = 2) =>
        /\ shortest_path_result[1].path = GeneralEnumeration(distances).path
        /\ shortest_path_result[1].total_distance = GeneralEnumeration(distances).distance

\* a two-point result, computed from the fallback values
C15_Witness ==
    /\ Solved
    /\ Len(distances) = 2
    /\ provider_outcomes[1] = "fail"
    /\ distances[1][2] > 0

RECURSIVE Factorial(_)
Factorial(n) == IF n <= 1 THEN 1 ELSE n * Factorial(n - 1)

DeckReturned ==
    /\ fn_call /= None
    /\ fn_call.fn = "build_h3_density_deck"
    /\ fn_return /= None
    /\ fn_return[1] /= None

\* C16: for every cell the percentage is count / max * 100 with max the
\* largest count of the table, is the number 0 when max is 0, and lies in
\* [0, 100].
C16_PercentOfMax ==
    DeckReturned =>
        LET deck == fn_return[1][1]
            counts == fn_call.df_density
        IN  /\ \A k \in 1..Len(counts) : counts[k] <= deck.max_count
            /\ \E k \in 1..Len(counts) : counts[k] = deck.max_count
            /\ \A k \in 1..Len(counts) :
                  LET pct == deck.DENSITY_PCT[k]
                  IN  /\ pct.den > 0
                      /\ deck.max_count > 0 =>
                             pct.num * deck.max_count = counts[k] * 100 * pct.den
                      /\ deck.max_count = 0 => pct.num = 0
                      /\ 0 <= pct.num /\ pct.num <= 100 * pct.den

\* a deck built from a table of several cells whose counts are all 0
C16_Witness ==
    /\ DeckReturned
    /\ Len(fn_call.df_density) > 1
    /\ fn_return[1][1].max_count = 0

\* the haversine functions have returned
HaversineReturned ==
    /\ fn_call /= None
    /\ fn_call.fn = "_haversine_distance"
    /\ fn_return /= None

\* C17: both haversine functions give the same distance for (a, b) as for
\* (b, a), give 0 when a = b, never a negative distance, and the same
\* distance as each other.
C17_HaversineSymmetricZeroNonNegative ==
    HaversineReturned =>
        LET r == fn_return[1]
        IN  /\ r.route_ab = r.route_ba
            /\ r.nearest_ab = r.nearest_ba
            /\ r.route_ab = r.nearest_ab
            /\ fn_call.a = fn_call.b => r.route_ab = 0 /\ r.nearest_ab = 0
            /\ r.route_ab >= 0 /\ r.nearest_ab >= 0

\* two points of different latitude and longitude, a positive distance apart
C17_Witness ==
    /\ HaversineReturned
    /\ fn_call.a[1] /= fn_call.b[1]
    /\ fn_call.a[2] /= fn_call.b[2]
    /\ fn_return[1].route_ab > 0

\* C18: whatever clicks, Remove and Clear All events occur, the list of
\* selected places, which is the list handed to the route calculation, holds
\* at most 8 places; a click refused at the limit leaves the 8 places
\* selected and the clicked place out of the list.
C18_SelectionNeverAboveLimit ==
    /\ Len(selected_places) <= MAX_SELECTABLE_PLACES
    /\ route_message = "warning: maximum places" =>
           /\ Len(selected_places) = MAX_SELECTABLE_PLACES
           /\ last_selection /= None
           /\ ~AlreadySelected(selected_places, last_selection[1])

\* a ninth place has been clicked with 8 places selected
C18_Witness ==
    /\ route_message = "warning: maximum places"
    /\ Len(selected_places) = MAX_SELECTABLE_PLACES

\* for some pair of the request the provider's query raises and the haversine
\* fallback raises too
FallbackFails(places, outcomes) ==
    /\ ~TooFew(places)
    /\ ValidCoords(places)
    /\ \E k \in 1..NumPairs(Len(places)) :
           LET c == PairCoords(Coords(places), k)
           IN  outcomes[k] = "fail" /\ MathDomainError(c[1], c[2], c[3], c[4])

\* C20: when for some pair of a route request the provider fails and the
\* haversine fallback fails too, the request ends with the fallback's
\* exception: the optimizer is not run on any matrix, and the stored
\* shortest-path result is left as it was.
C20_FallbackFailureFailsRequest ==
    [][ (Calculate /\ FallbackFails(selected_places, provider_outcomes))
          => /\ route_message' = "exception: math domain error"
             /\ UNCHANGED <<shortest_path_result, distances, evaluated>> ]_vars

C20_Witness ==
    /\ FallbackFails(selected_places, provider_outcomes)
    /\ route_message = "exception: math domain error"
    /\ shortest_path_result = None
    /\ \E k \in 1..NumPairs(Len(selected_places)) :
           LET c == PairCoords(Coords(selected_places), k)
           IN  provider_outcomes[k] = "fail" /\ ~MathDomainError(c[1], c[2], c[3], c[4])

\* C21: a selected place whose latitude or longitude is missing or spells no
\* number is never silently dropped: a table of the selected places is not
\* built with the row of a selected place left out.
C21_NoSelectedRowDropped ==
    fn_return /= None =>
        \A k \in 1..Len(fn_call.selected_places) :
            \E r \in 1..Len(fn_return[1]) :
                fn_return[1][r].OSM_ID = fn_call.selected_places[k].osm_id

\* C22: once the run has been asked to stop while the matrix is built or the
\* permutations are enumerated, the calculation does no further iteration:
\* its next step ends it, with a complete result or with a cancellation.
C22_StopRequestEndsRun ==
    [][ (stop_requested /\ Running(fn_frame)) => ~Running(fn_frame') ]_vars

FanOutEnded ==
    /\ fn_frame /= None
    /\ \/ fn_frame[1].distances = ValueError
       \/ Len(fn_frame[1].done) = NumPairs(Len(selected_places))

C25_SelectedIdsDistinct ==
    \A a, b \in 1..Len(selected_places) :
        a /= b => selected_places[a].osm_id /= selected_places[b].osm_id

C25_Witness ==
    /\ Len(selected_places) >= 3
    /\ last_selection = Some(selected_places[1].osm_id)
    /\ route_message = "none"

\* the cells of the stations that have a geography, at a resolution
StationCells(resolution) == { H3_POINT_TO_CELL(a, resolution) : a \in Anchors }

\* C26: the coverage table has exactly one row per candidate cell, the
\* candidate cells being the cells of the places together with the cells of
\* the stations: no candidate cell is missing and none appears twice, also
\* when several stations cover it.
C26_OneRowPerCandidateCell ==
    coverage_view /= None =>
        LET v == coverage_view[1]
            candidates == PlaceCells(v.resolution) \cup StationCells(v.resolution)
        IN  /\ { v.rows[k].H3_CELL : k \in 1..Len(v.rows) } = candidates
            /\ \A a, b \in 1..Len(v.rows) : a /= b => v.rows[a].H3_CELL /= v.rows[b].H3_CELL

\* a table with a cell that two stations cover and a cell that holds a
\* station and no place
C26_Witness ==
    /\ coverage_view /= None
    /\ LET v == coverage_view[1]
           Centre(k) == ST_CENTROID(v.rows[k].H3_CELL, v.resolution)
       IN  /\ \E k \in 1..Len(v.rows) :
                 \E a, b \in Anchors :
                     /\ a /= b
                     /\ Abs(Centre(k) - a) <= v.radius_km
                     /\ Abs(Centre(k) - b) <= v.radius_km
           /\ \E k \in 1..Len(v.rows) :
                 /\ v.rows[k].H3_CELL \in StationCells(v.resolution)
                 /\ v.rows[k].H3_CELL \notin PlaceCells(v.resolution)

\* path is a permutation of 0..k-1
IsPermutation(path, k) ==
    /\ Len(path) = k
    /\ \A i \in 0..(k - 1) : \E m \in 1..k : path[m] = i

\* C27: whatever clicks, Remove, Clear All and Calculate operations occur, a
\* stored shortest-path result belongs to the current selection: its places
\* are the selected places and its path is a permutation of their indices.
C27_StoredResultNeverStale ==
    shortest_path_result /= None =>
        /\ shortest_path_result[1].places = selected_places
        /\ IsPermutation(shortest_path_result[1].path, Len(selected_places))

\* a result stored for three places, the first of them the place clicked
\* last, whose best path is not the order of selection
C27_Witness ==
    /\ shortest_path_result /= None
    /\ Len(selected_places) = 3
    /\ selected_places[1].osm_id = "3"
    /\ last_selection = Some("3")
    /\ shortest_path_result[1].path /= <<0, 1, 2>>

\* a run of the page whose pick is not accepted: nothing is selected on the
\* map, or the place clicked is already in the list, or the list is full
RefusedPick ==
    \/ PickNothing
    \/ \E feature \in ClickTargets :
          /\ AlreadySelected(selected_places, feature.osm_id) \/ AtLimit(selected_places)
          /\ _handle_place_selection(feature)
          /\ UNCHANGED <<distances, provider_outcomes, evaluated,
                         density_vars, coverage_vars, fn_vars>>

\* C28: a pick that is not accepted changes neither the list of selected
\* places nor the stored shortest-path result; of the state of the page it
\* changes at most the marker of the last processed selection.
C28_RefusedPickChangesNothing ==
    [][ RefusedPick => UNCHANGED <<selected_places, shortest_path_result, distances,
                                   evaluated>> ]_vars

\* a click refused at the limit while a result is stored
C28_Witness ==
    /\ route_message = "warning: maximum places"
    /\ shortest_path_result /= None
    /\ Len(selected_places) = MAX_SELECTABLE_PLACES

\* a run of the page whose map selection is the place processed last
RepeatedPick ==
    \E feature \in ClickTargets :
        /\ last_selection = Some(feature.osm_id)
        /\ _handle_place_selection(feature)
        /\ UNCHANGED <<distances, provider_outcomes, evaluated,
                       density_vars, coverage_vars, fn_vars>>

\* C29: a pick of the place processed last never changes the list of
\* selected places, also when that place is no longer in the list; Remove
\* and Clear All leave the marker of the last processed selection as it is,
\* so a place that entered the list in a step was not the marked one: a
\* removed place can be added again only after another pick was processed.
C29_LastProcessedPickNeverAdds ==
    /\ [][ RepeatedPick => UNCHANGED <<selected_places, last_selection>> ]_vars
    /\ [][ (RemovePlace \/ ClearAll) => UNCHANGED last_selection ]_vars
    /\ [][ \A k \in 1..Len(selected_places') :
             ~AlreadySelected(selected_places, selected_places'[k].osm_id)
                 => last_selection /= Some(selected_places'[k].osm_id) ]_vars

\* the page after a run whose pick changed nothing, the place processed last
\* being out of the list, which holds other places
C29_Witness ==
    /\ last_selection /= None
    /\ ~AlreadySelected(selected_places, last_selection[1])
    /\ Len(selected_places) >= 2
    /\ route_message = "none"

\* the order of the categories
CategoryRank(category) ==
    CASE category = "Low" -> 0 [] category = "Medium" -> 1 [] category = "High" -> 2

\* C30: in every density classification of a non-empty table, with the low
\* threshold under or over the high one, a cell with a larger count never has
\* a lower category than a cell with a smaller count, every cell whose count
\* is the maximum is High, and no cell is Medium when the low threshold is
\* over the high one.
C30_CategoryMonotoneMaxHigh ==
    density_view /= None =>
        LET v == density_view[1]
            cells == 1..Len(v.CITY_COUNT)
        IN  /\ \A a, b \in cells :
                  v.CITY_COUNT[a] <= v.CITY_COUNT[b] =>
                      CategoryRank(v.DENSITY_CATEGORY[a]) <= CategoryRank(v.DENSITY_CATEGORY[b])
            /\ \A a \in cells :
                  v.CITY_COUNT[a] = v.max_count => v.DENSITY_CATEGORY[a] = "High"
            /\ v.low_threshold_pct > v.high_threshold_pct =>
                  \A a \in cells : v.DENSITY_CATEGORY[a] /= "Medium"

\* a classification with the low threshold over the high one, in which a
\* count lies between the two thresholds, and one with the high threshold at
\* 100 are both covered by the first
C30_Witness ==
    /\ density_view /= None
    /\ LET v == density_view[1]
       IN  /\ v.low_threshold_pct > v.high_threshold_pct
           /\ \E a \in 1..Len(v.CITY_COUNT) :
                 /\ 100 * v.CITY_COUNT[a] > v.max_count * v.high_threshold_pct
                 /\ 100 * v.CITY_COUNT[a] < v.max_count * v.low_threshold_pct
           /\ \E a \in 1..Len(v.CITY_COUNT) : v.DENSITY_CATEGORY[a] = "Low"

====
